---- MODULE Spec2Model ----
(***************************************************************************)
(* The chunk cache and background generation of the maze game (game.py):   *)
(* get_maze_cell / get_maze_chunk on the foreground thread, the worker     *)
(* thread that generates chunks, process_chunk_generation that feeds it    *)
(* and the start and shutdown code of main().                              *)
(***************************************************************************)
EXTENDS Integers, Sequences, FiniteSets, TLC

VARIABLES
    maze_cache,              \* dict: chunk key -> committed chunk (game.py:27)
    chunk_generation_queue,  \* list of chunk keys (game.py:28)
    generation_thread,       \* "None" or "Thread" (game.py:32)
    generation_queue,        \* queue.Queue of chunk keys and the sentinel (game.py:33)
    generation_lock,         \* "unlocked" or "worker" (game.py:34)
    noise_gen,               \* the seeded noise field (game.py:35)
    worker_pc,               \* where the worker thread is
    worker_key,              \* the key the worker took from generation_queue
    filtered_noise,          \* generate_chunk's local result, before the commit
    main_pc,                 \* where main() is
    last_call,               \* what the foreground's last call returned, when it
                             \* was a get_maze_cell call
    invocations,             \* history: generate_chunk invocations per key
    request_order,           \* history: keys in the order of their first request
    shutdown_log,            \* history: the worker's work when and since the
                             \* sentinel was put on generation_queue
    player,                  \* main()'s Player: None before it is created, else
                             \* its x and y (game.py:117-119, 158)
    threads_created          \* history: threading.Thread objects started

vars == <<maze_cache, chunk_generation_queue, generation_thread, generation_queue,
          generation_lock, noise_gen, worker_pc, worker_key, filtered_noise,
          main_pc, last_call, invocations, request_order, shutdown_log,
          player, threads_created>>

----------------------------------------------------------------------------
(* Program constants *)

CHUNK_SIZE == 4

\* threshold = 0.2, in tenths
THRESHOLD == 2

\* median_filter(binary_noise, size=4)
FILTER_SIZE == 4

\* the value Player.move rejects on and the renderer draws
WALL == 1

\* pixels of a grid cell
CELL_SIZE == 20

\* Player.speed, pixels of one move
SPEED == 8

\* the queue sentinel None; chunk keys are pairs
None == <<>>

(* Bounds of the model *)

\* generation_queue and chunk_generation_queue together hold at most this many keys
MaxQueue == 3

\* invocations[c] counts up to this value and stays there
MaxInvocations == 2

\* the coordinate range of the arithmetic checks
MaxCoord == 9

\* the player stays within this many moves left and right of its start position
MaxStepsX == 4

\* the player stays within this many moves up and down of its start position
MaxStepsY == 2

\* the chunks the foreground asks for: all of them under SpecShutdown, the
\* first two under Spec
ChunkKeys == {<<-1, 0>>, <<0, -1>>, <<1, 1>>}

\* the world cells the foreground asks for under Spec and FairSpec: cells of
\* chunks (-1, 0) and (0, -1)
WorldCells ==
    {<<-4, 0>>, <<-1, 2>>, <<-3, 3>>, <<0, -4>>, <<2, -1>>, <<3, -3>>}

\* float arguments of get_maze_cell, in halves: (-3.5, 0.5), (0.5, -3.5) and
\* (-1.5, 2.0), cells of chunks (-1, 0) and (0, -1)
FloatCells == {<<-7, 1>>, <<1, -7>>, <<-3, 4>>}

\* the noise fields the seed may stand for: noise2 is a plane a*x + b*y + c,
\* flat (every cell open) or sloped (chunks of walls, and of walls and open
\* cells; the last one has the player's start cell open and walls two cells
\* to its right)
NoiseSeeds ==
    { [a |-> 0, b |-> 0, c |-> 0],
      [a |-> 1, b |-> -1, c |-> 2],
      [a |-> 1, b |-> 2, c |-> 3],
      [a |-> 1, b |-> 0, c |-> 0] }

----------------------------------------------------------------------------
(* Pure functions *)

Local == 0..(CHUNK_SIZE - 1)

\* division that truncates towards zero, as C's / does
TruncDiv(x, n) == IF x >= 0 THEN x \div n ELSE -((-x) \div n)

\* Python's x // n
FloorDiv(x, n) == x \div n

\* Python's x % n
PyMod(x, n) == x % n

Abs(v) == IF v < 0 THEN -v ELSE v

Clamp(v) == IF v < -10 THEN -10 ELSE IF v > 10 THEN 10 ELSE v

\* noise_gen.noise2(x * 0.05, y * 0.05) in tenths, x and y world cells. The
\* OpenSimplex field is a library's: it is a fixed function of the seed and
\* the point with values in [-1, 1], here one of the planes of NoiseSeeds
noise2(gen, x, y) == Clamp(gen.a * x + gen.b * y + gen.c)

\* np.zeros((CHUNK_SIZE, CHUNK_SIZE))
zeros == [x \in Local |-> [y \in Local |-> 0]]

\* np.all(chunk == 0)
all_zero(chunk) == \A x \in Local : \A y \in Local : chunk[x][y] = 0

\* np.where(np.abs(noise) < threshold, 0, 1) of the chunk's noise tile
binary_noise(gen, chunk_x, chunk_y) ==
    [x \in Local |-> [y \in Local |->
        IF Abs(noise2(gen, x + chunk_x * CHUNK_SIZE, y + chunk_y * CHUNK_SIZE)) < THRESHOLD
        THEN 0 ELSE 1]]

\* scipy's mode='reflect' at the border of the tile
Reflect(i) ==
    IF i < 0 THEN -i - 1
    ELSE IF i >= CHUNK_SIZE THEN 2 * CHUNK_SIZE - 1 - i
    ELSE i

\* the window of an even-sized filter: size // 2 before the cell, the rest after
Window == (-(FILTER_SIZE \div 2))..(FILTER_SIZE - (FILTER_SIZE \div 2) - 1)

\* median_filter(binary, size=4): the element of rank (size*size) // 2 of the window
median_filter(binary) ==
    [x \in Local |-> [y \in Local |->
        LET ones == Cardinality({d \in Window \X Window :
                        binary[Reflect(x + d[1])][Reflect(y + d[2])] = 1})
            rank == (FILTER_SIZE * FILTER_SIZE) \div 2
        IN  IF FILTER_SIZE * FILTER_SIZE - ones <= rank THEN 1 ELSE 0]]

\* chunk index of a world coordinate (game.py:104-105)
chunk_index(x) == FloorDiv(x, CHUNK_SIZE)

\* local index of a world coordinate (game.py:106-107)
local_index(x) == PyMod(x, CHUNK_SIZE)

\* the grid cell of a pixel coordinate: int(new_x // CELL_SIZE)
grid(p) == FloorDiv(p, CELL_SIZE)

\* the pixel coordinates the player can have within MaxStepsX moves left and
\* right and MaxStepsY moves up and down of its start position
PlayerXs == {CELL_SIZE + 10 + SPEED * k : k \in (-MaxStepsX)..MaxStepsX}

PlayerYs == {CELL_SIZE + 10 + SPEED * k : k \in (-MaxStepsY)..MaxStepsY}

\* the positions the player is kept within
InReach(x, y) == x \in PlayerXs /\ y \in PlayerYs

\* the chunks of the cells the player can ask for
PlayerChunks ==
    {<<chunk_index(grid(px)), chunk_index(grid(py))>> : px \in PlayerXs, py \in PlayerYs}

\* every chunk the model asks for
Chunks == ChunkKeys \cup PlayerChunks

\* the chunk generate_chunk computes (game.py:57-68), tabulated over the seeds
\* and the chunks of the model
chunk_table ==
    [gen \in NoiseSeeds, key \in Chunks |->
        median_filter(binary_noise(gen, key[1], key[2]))]

\* generate_chunk's filtered_noise for chunk (chunk_x, chunk_y)
generate(gen, chunk_x, chunk_y) == chunk_table[gen, <<chunk_x, chunk_y>>]

InSeq(e, s) == \E i \in 1..Len(s) : s[i] = e

Min(a, b) == IF a < b THEN a ELSE b

\* get_maze_chunk queueing the key without looking at maze_cache first
get_maze_chunk_queue_uncached(key) ==
    IF InSeq(key, chunk_generation_queue)
    THEN chunk_generation_queue
    ELSE Append(chunk_generation_queue, key)

\* chunk_generation_queue after get_maze_chunk(key)
get_maze_chunk_queue(key) ==
    IF key \in DOMAIN maze_cache \/ InSeq(key, chunk_generation_queue)
    THEN chunk_generation_queue
    ELSE Append(chunk_generation_queue, key)

\* what get_maze_chunk(key) returns
get_maze_chunk_ret(key) ==
    IF key \in DOMAIN maze_cache THEN maze_cache[key] ELSE zeros

\* what get_maze_cell(x, y) returns
get_maze_cell_ret(x, y) ==
    LET key == <<chunk_index(x), chunk_index(y)>>
        chunk == get_maze_chunk_ret(key)
    IN  IF all_zero(chunk) /\ InSeq(key, get_maze_chunk_queue(key))
        THEN 1
        ELSE chunk[local_index(x)][local_index(y)]

----------------------------------------------------------------------------
(* State after the module is loaded *)

Init ==
    /\ maze_cache = <<>>
    /\ chunk_generation_queue = <<>>
    /\ generation_thread = "None"
    /\ generation_queue = <<>>
    /\ generation_lock = "unlocked"
    /\ noise_gen \in NoiseSeeds
    /\ worker_pc = "not_started"
    /\ worker_key = None
    /\ filtered_noise = None
    /\ main_pc = "not_started"
    /\ last_call = None
    /\ invocations = [c \in Chunks |-> 0]
    /\ request_order = <<>>
    /\ shutdown_log = None
    /\ player = None
    /\ threads_created = 0

\* Player(x, y)
Player(x, y) == [x |-> x, y |-> y]

\* the foreground thread is free to call into the module: before main() is
\* called and in the loop of main()
ForegroundRuns == main_pc \in {"not_started", "loop"}

----------------------------------------------------------------------------
(* Foreground operations *)

\* get_maze_chunk(chunk_x, chunk_y), called on its own
GetMazeChunk(chunk_x, chunk_y) ==
    LET key == <<chunk_x, chunk_y>> IN
    /\ ForegroundRuns
    /\ chunk_generation_queue' = get_maze_chunk_queue(key)
    /\ last_call' = None
    /\ request_order' = IF InSeq(key, request_order) THEN request_order
                        ELSE Append(request_order, key)
    /\ UNCHANGED <<maze_cache, generation_thread, generation_queue, generation_lock,
                   noise_gen, worker_pc, worker_key, filtered_noise, main_pc,
                   invocations, shutdown_log,
                   player, threads_created>>

\* get_maze_cell taking generation_lock around its reads of maze_cache
GetMazeCellLocked(x, y) ==
    LET key == <<chunk_index(x), chunk_index(y)>> IN
    /\ ForegroundRuns
    /\ generation_lock = "unlocked"
    /\ chunk_generation_queue' = get_maze_chunk_queue(key)
    /\ last_call' = [x |-> x, y |-> y, key |-> key,
                     local |-> <<local_index(x), local_index(y)>>,
                     hit |-> key \in DOMAIN maze_cache,
                     ret |-> get_maze_cell_ret(x, y)]
    /\ request_order' = IF InSeq(key, request_order) THEN request_order
                        ELSE Append(request_order, key)
    /\ UNCHANGED <<maze_cache, generation_thread, generation_queue, generation_lock,
                   noise_gen, worker_pc, worker_key, filtered_noise, main_pc,
                   invocations, shutdown_log,
                   player, threads_created>>

\* get_maze_cell whose get_maze_chunk call stores the placeholder it returns
\* in maze_cache
GetMazeCellCachesPlaceholder(x, y) ==
    LET key == <<chunk_index(x), chunk_index(y)>> IN
    /\ ForegroundRuns
    /\ chunk_generation_queue' = get_maze_chunk_queue(key)
    /\ maze_cache' = [k \in DOMAIN maze_cache \cup {key} |->
                        IF k \in DOMAIN maze_cache THEN maze_cache[k] ELSE zeros]
    /\ last_call' = [x |-> x, y |-> y, key |-> key,
                     local |-> <<local_index(x), local_index(y)>>,
                     hit |-> key \in DOMAIN maze_cache,
                     ret |-> get_maze_cell_ret(x, y)]
    /\ request_order' = IF InSeq(key, request_order) THEN request_order
                        ELSE Append(request_order, key)
    /\ UNCHANGED <<generation_thread, generation_queue, generation_lock,
                   noise_gen, worker_pc, worker_key, filtered_noise, main_pc,
                   invocations, shutdown_log, player, threads_created>>

\* get_maze_cell(x, y), with the get_maze_chunk call it makes
GetMazeCell(x, y) ==
    LET key == <<chunk_index(x), chunk_index(y)>> IN
    /\ ForegroundRuns
    /\ chunk_generation_queue' = get_maze_chunk_queue(key)
    /\ last_call' = [x |-> x, y |-> y, key |-> key,
                     local |-> <<local_index(x), local_index(y)>>,
                     hit |-> key \in DOMAIN maze_cache,
                     ret |-> get_maze_cell_ret(x, y)]
    /\ request_order' = IF InSeq(key, request_order) THEN request_order
                        ELSE Append(request_order, key)
    /\ UNCHANGED <<maze_cache, generation_thread, generation_queue, generation_lock,
                   noise_gen, worker_pc, worker_key, filtered_noise, main_pc,
                   invocations, shutdown_log,
                   player, threads_created>>

\* get_maze_cell(x, y) called with floats, x = hx / 2 and y = hy / 2, at least
\* one of them not whole. x // CHUNK_SIZE is then the float of the floor
\* quotient, which as a dict key and a list element equals the int; the chunk
\* is looked up and queued as for ints and returned as a placeholder is; only
\* the indexing chunk[local_x][local_y] (game.py:113) raises IndexError.
GetMazeCellFloat(hx, hy) ==
    LET key == <<FloorDiv(hx, 2 * CHUNK_SIZE), FloorDiv(hy, 2 * CHUNK_SIZE)>>
        chunk == get_maze_chunk_ret(key)
        placeholder == all_zero(chunk) /\ InSeq(key, get_maze_chunk_queue(key))
    IN  /\ ForegroundRuns
        /\ chunk_generation_queue' = get_maze_chunk_queue(key)
        /\ last_call' = IF placeholder
                         THEN [hx |-> hx, hy |-> hy, key |-> key,
                               hit |-> key \in DOMAIN maze_cache,
                               raised |-> FALSE, ret |-> 1]
                         ELSE [hx |-> hx, hy |-> hy, key |-> key,
                               hit |-> key \in DOMAIN maze_cache,
                               raised |-> TRUE]
        /\ request_order' = IF InSeq(key, request_order) THEN request_order
                            ELSE Append(request_order, key)
        /\ UNCHANGED <<maze_cache, generation_thread, generation_queue,
                       generation_lock, noise_gen, worker_pc, worker_key,
                       filtered_noise, main_pc, invocations, shutdown_log,
                       player, threads_created>>

\* the keys the player may hold down: left, right, up, down (game.py:173-180)
Directions == {<<-1, 0>>, <<1, 0>>, <<0, -1>>, <<0, 1>>}

\* a move that does not ask get_maze_cell
MoveUngated(dx, dy) ==
    LET new_x == player.x + dx * SPEED
        new_y == player.y + dy * SPEED
        grid_x == grid(new_x)
        grid_y == grid(new_y)
        key == <<chunk_index(grid_x), chunk_index(grid_y)>>
    IN  /\ main_pc = "loop"
        /\ InReach(new_x, new_y)
        /\ chunk_generation_queue' = get_maze_chunk_queue(key)
        /\ last_call' = [x |-> grid_x, y |-> grid_y, key |-> key,
                         local |-> <<local_index(grid_x), local_index(grid_y)>>,
                         hit |-> key \in DOMAIN maze_cache,
                         ret |-> get_maze_cell_ret(grid_x, grid_y)]
        /\ request_order' = IF InSeq(key, request_order) THEN request_order
                            ELSE Append(request_order, key)
        /\ player' = Player(new_x, new_y)
        /\ UNCHANGED <<maze_cache, generation_thread, generation_queue,
                       generation_lock, noise_gen, worker_pc, worker_key,
                       filtered_noise, main_pc, invocations, shutdown_log,
                       threads_created>>

\* player.move(dx, dy) in the loop of main(), with the get_maze_cell call it
\* makes (game.py:122-136)
Move(dx, dy) ==
    LET new_x == player.x + dx * SPEED
        new_y == player.y + dy * SPEED
        grid_x == grid(new_x)
        grid_y == grid(new_y)
        key == <<chunk_index(grid_x), chunk_index(grid_y)>>
    IN  /\ main_pc = "loop"
        /\ InReach(new_x, new_y)
        /\ chunk_generation_queue' = get_maze_chunk_queue(key)
        /\ last_call' = [x |-> grid_x, y |-> grid_y, key |-> key,
                         local |-> <<local_index(grid_x), local_index(grid_y)>>,
                         hit |-> key \in DOMAIN maze_cache,
                         ret |-> get_maze_cell_ret(grid_x, grid_y)]
        /\ request_order' = IF InSeq(key, request_order) THEN request_order
                            ELSE Append(request_order, key)
        /\ player' = IF get_maze_cell_ret(grid_x, grid_y) = 1
                      THEN player
                      ELSE Player(new_x, new_y)
        /\ UNCHANGED <<maze_cache, generation_thread, generation_queue,
                       generation_lock, noise_gen, worker_pc, worker_key,
                       filtered_noise, main_pc, invocations, shutdown_log,
                       threads_created>>

\* the keys popped from the end of the list: pop() for pop(0)
drained_lifo(queue) == [i \in 1..Len(queue) |-> queue[Len(queue) + 1 - i]]

\* the keys in the order the loop pops them: pop(0) takes the oldest first
\* (game.py:97-99)
drained(queue) == queue

\* process_chunk_generation() starting a thread whenever none is alive
ProcessChunkGenerationRestarts ==
    /\ ForegroundRuns
    /\ Len(generation_queue) + Len(chunk_generation_queue) <= MaxQueue
    /\ IF generation_thread = "None" \/ worker_pc = "exited"
       THEN /\ generation_thread' = "Thread"
            /\ worker_pc' = "get"
            /\ threads_created' = threads_created + 1
       ELSE UNCHANGED <<generation_thread, worker_pc, threads_created>>
    /\ generation_queue' = generation_queue \o drained(chunk_generation_queue)
    /\ chunk_generation_queue' = <<>>
    /\ last_call' = None
    /\ UNCHANGED <<maze_cache, generation_lock, noise_gen, worker_key, filtered_noise,
                   main_pc, invocations, request_order, shutdown_log, player>>

\* process_chunk_generation()
ProcessChunkGeneration ==
    /\ ForegroundRuns
    /\ Len(generation_queue) + Len(chunk_generation_queue) <= MaxQueue
    /\ IF generation_thread = "None"
       THEN /\ generation_thread' = "Thread"
            /\ worker_pc' = "get"
            /\ threads_created' = threads_created + 1
       ELSE UNCHANGED <<generation_thread, worker_pc, threads_created>>
    /\ generation_queue' = generation_queue \o drained(chunk_generation_queue)
    /\ chunk_generation_queue' = <<>>
    /\ last_call' = None
    /\ UNCHANGED <<maze_cache, generation_lock, noise_gen, worker_key, filtered_noise,
                   main_pc, invocations, request_order, shutdown_log, player>>

\* main() up to the end of its try/finally (game.py:153-163)
MainStart ==
    /\ main_pc = "not_started"
    /\ IF generation_thread # "None"
       THEN /\ generation_queue' = Append(generation_queue, None)
            /\ shutdown_log' = [in_flight |-> worker_key,
                                queued |-> generation_queue,
                                started |-> <<>>]
            /\ main_pc' = "join"
       ELSE /\ main_pc' = "loop"
            /\ UNCHANGED <<generation_queue, shutdown_log>>
    /\ player' = Player(CELL_SIZE + 10, CELL_SIZE + 10)
    /\ last_call' = None
    /\ UNCHANGED <<maze_cache, chunk_generation_queue, generation_thread,
                   generation_lock, noise_gen, worker_pc, worker_key, filtered_noise,
                   invocations, request_order, threads_created>>

\* generation_thread.join() returns (game.py:163)
MainJoin ==
    /\ main_pc = "join"
    /\ worker_pc = "exited"
    /\ main_pc' = "loop"
    /\ UNCHANGED <<maze_cache, chunk_generation_queue, generation_thread,
                   generation_queue, generation_lock, noise_gen, worker_pc, worker_key,
                   filtered_noise, last_call, invocations, request_order, shutdown_log,
                   player, threads_created>>

\* the loop of main() ends and main() returns (game.py:165-239)
MainQuit ==
    /\ main_pc = "loop"
    /\ main_pc' = "quit"
    /\ last_call' = None
    /\ UNCHANGED <<maze_cache, chunk_generation_queue, generation_thread,
                   generation_queue, generation_lock, noise_gen, worker_pc, worker_key,
                   filtered_noise, invocations, request_order, shutdown_log,
                   player, threads_created>>

----------------------------------------------------------------------------
(* The worker thread *)

\* the worker's get with `continue` for `break`: the sentinel is dropped and
\* the loop goes on
WorkerGetSkipsSentinel ==
    /\ worker_pc = "get"
    /\ generation_queue # <<>>
    /\ generation_queue' = Tail(generation_queue)
    /\ IF Head(generation_queue) = None
       THEN UNCHANGED <<worker_pc, worker_key, invocations, shutdown_log>>
       ELSE /\ worker_pc' = "generate"
            /\ worker_key' = Head(generation_queue)
            /\ invocations' = [invocations EXCEPT ![Head(generation_queue)] =
                                    Min(@ + 1, MaxInvocations)]
            /\ shutdown_log' =
                    IF shutdown_log = None THEN None
                    ELSE [shutdown_log EXCEPT !.started =
                                Append(@, Head(generation_queue))]
    /\ UNCHANGED <<maze_cache, chunk_generation_queue, generation_thread,
                   generation_lock, noise_gen, filtered_noise, main_pc, last_call,
                   request_order,
                   player, threads_created>>

\* key = generation_queue.get(); the sentinel ends the loop (game.py:77-81)
WorkerGet ==
    /\ worker_pc = "get"
    /\ generation_queue # <<>>
    /\ generation_queue' = Tail(generation_queue)
    /\ IF Head(generation_queue) = None
       THEN /\ worker_pc' = "exited"
            /\ UNCHANGED <<worker_key, invocations, shutdown_log>>
       ELSE /\ worker_pc' = "generate"
            /\ worker_key' = Head(generation_queue)
            /\ invocations' = [invocations EXCEPT ![Head(generation_queue)] =
                                    Min(@ + 1, MaxInvocations)]
            /\ shutdown_log' =
                    IF shutdown_log = None THEN None
                    ELSE [shutdown_log EXCEPT !.started =
                                Append(@, Head(generation_queue))]
    /\ UNCHANGED <<maze_cache, chunk_generation_queue, generation_thread,
                   generation_lock, noise_gen, filtered_noise, main_pc, last_call,
                   request_order,
                   player, threads_created>>

\* a worker that looks for the sentinel while it generates and drops the
\* chunk when it is there
WorkerGenerateAbandons ==
    /\ worker_pc = "generate"
    /\ IF InSeq(None, generation_queue)
       THEN /\ worker_pc' = "exited"
            /\ worker_key' = None
            /\ UNCHANGED <<filtered_noise, generation_lock>>
       ELSE /\ generation_lock = "unlocked"
            /\ filtered_noise' = generate(noise_gen, worker_key[1], worker_key[2])
            /\ generation_lock' = "worker"
            /\ worker_pc' = "commit"
            /\ UNCHANGED worker_key
    /\ UNCHANGED <<maze_cache, chunk_generation_queue, generation_thread,
                   generation_queue, noise_gen, main_pc, last_call,
                   invocations, request_order, shutdown_log,
                   player, threads_created>>

\* generate_chunk up to taking generation_lock (game.py:57-70)
WorkerGenerate ==
    /\ worker_pc = "generate"
    /\ generation_lock = "unlocked"
    /\ filtered_noise' = generate(noise_gen, worker_key[1], worker_key[2])
    /\ generation_lock' = "worker"
    /\ worker_pc' = "commit"
    /\ UNCHANGED <<maze_cache, chunk_generation_queue, generation_thread,
                   generation_queue, noise_gen, worker_key, main_pc, last_call,
                   invocations, request_order, shutdown_log,
                   player, threads_created>>

\* a commit into a cache that keeps only the newest chunk
WorkerCommitEvicts ==
    /\ worker_pc = "commit"
    /\ maze_cache' = [k \in {worker_key} |-> filtered_noise]
    /\ generation_lock' = "unlocked"
    /\ filtered_noise' = None
    /\ worker_key' = None
    /\ worker_pc' = "get"
    /\ UNCHANGED <<chunk_generation_queue, generation_thread, generation_queue,
                   noise_gen, main_pc, last_call, invocations, request_order,
                   shutdown_log,
                   player, threads_created>>

\* a commit that takes generation_lock and never releases it
WorkerCommitKeepsLock ==
    /\ worker_pc = "commit"
    /\ maze_cache' = [k \in DOMAIN maze_cache \cup {worker_key} |->
                        IF k = worker_key THEN filtered_noise ELSE maze_cache[k]]
    /\ filtered_noise' = None
    /\ worker_key' = None
    /\ worker_pc' = "get"
    /\ UNCHANGED <<chunk_generation_queue, generation_thread, generation_queue,
                   generation_lock, noise_gen, main_pc, last_call, invocations,
                   request_order, shutdown_log,
                   player, threads_created>>

\* maze_cache[key] = filtered_noise, the lock released, task_done (game.py:71, 83);
\* nothing joins the queue, so the count task_done lowers is not kept
WorkerCommit ==
    /\ worker_pc = "commit"
    /\ maze_cache' = [k \in DOMAIN maze_cache \cup {worker_key} |->
                        IF k = worker_key THEN filtered_noise ELSE maze_cache[k]]
    /\ generation_lock' = "unlocked"
    /\ filtered_noise' = None
    /\ worker_key' = None
    /\ worker_pc' = "get"
    /\ UNCHANGED <<chunk_generation_queue, generation_thread, generation_queue,
                   noise_gen, main_pc, last_call, invocations, request_order,
                   shutdown_log,
                   player, threads_created>>

----------------------------------------------------------------------------
(* Specifications *)

\* the steps of the worker thread
Worker ==
    \/ WorkerGet
    \/ WorkerGenerate
    \/ WorkerCommit

\* the steps of main()
Main ==
    \/ MainStart
    \/ MainJoin
    \/ MainQuit

Next ==
    \/ \E c \in WorldCells : GetMazeCell(c[1], c[2])
    \/ ProcessChunkGeneration
    \/ Main
    \/ Worker

Spec == Init /\ [][Next]_vars

\* the main loop keeps calling process_chunk_generation and the scheduler keeps
\* running the worker thread
FairSpec ==
    /\ Init
    /\ [][Next]_vars
    /\ WF_vars(ProcessChunkGeneration)
    /\ WF_vars(Worker)

\* the shutdown scenario: get_maze_chunk and process_chunk_generation are
\* called for three chunks, then main() runs its try/finally, which signals
\* the worker and joins it
NextShutdown ==
    \/ \E c \in ChunkKeys : main_pc = "not_started" /\ GetMazeChunk(c[1], c[2])
    \/ main_pc = "not_started" /\ ProcessChunkGeneration
    \/ MainStart
    \/ MainJoin
    \/ Worker

SpecShutdown == Init /\ [][NextShutdown]_vars

\* the player in the loop of main(): the keys held down move it, the loop
\* calls process_chunk_generation and the worker generates
NextMove ==
    \/ MainStart
    \/ \E d \in Directions : Move(d[1], d[2])
    \/ main_pc = "loop" /\ ProcessChunkGeneration
    \/ Worker

SpecMove == Init /\ [][NextMove]_vars

\* get_maze_cell called with coordinates that are not whole numbers
NextFloat ==
    \/ \E c \in FloatCells : GetMazeCellFloat(c[1], c[2])
    \/ ProcessChunkGeneration
    \/ Worker

SpecFloat == Init /\ [][NextFloat]_vars

----------------------------------------------------------------------------
(* Claims *)

\* a get_maze_cell call has returned
Called == last_call # None

\* C1: a get_maze_cell call for a cell whose chunk is not in maze_cache never
\* returns the wall value.
C1_PlaceholderSafety ==
    (Called /\ ~last_call.hit) => last_call.ret # WALL

\* C2: a get_maze_cell call for a cell whose chunk is in maze_cache returns the
\* committed value of that cell, whatever the chunk holds and whatever
\* chunk_generation_queue holds.
C2_CacheHitValue ==
    (Called /\ last_call.hit) =>
        last_call.ret =
            maze_cache[<<last_call.x \div CHUNK_SIZE, last_call.y \div CHUNK_SIZE>>]
                      [last_call.x % CHUNK_SIZE][last_call.y % CHUNK_SIZE]

\* C3: generate_chunk is invoked at most once for every chunk coordinate.
C3_NoDuplicateWork ==
    \A c \in ChunkKeys : invocations[c] <= 1

\* C4: every step keeps every key of maze_cache and its chunk, and what
\* get_maze_chunk returns for the key stays that chunk.
C4_CacheMonotonic ==
    [][\A c \in DOMAIN maze_cache :
            /\ c \in DOMAIN maze_cache'
            /\ maze_cache'[c] = maze_cache[c]
            /\ get_maze_chunk_ret(c)' = maze_cache[c]]_vars

\* a chunk has been committed a second time and a later call hit it
C4_Witness ==
    \E c \in DOMAIN maze_cache :
        /\ invocations[c] = 2
        /\ worker_key # c
        /\ Called /\ last_call.hit /\ last_call.key = c

\* C5: whenever the foreground is at a point where it calls into the module,
\* get_maze_cell and get_maze_chunk can run to completion for every cell and
\* chunk, whatever the worker is doing and whoever holds generation_lock.
C5_NeverBlock ==
    main_pc \in {"not_started", "loop"} =>
        /\ \A c \in WorldCells : ENABLED GetMazeCell(c[1], c[2])
        /\ \A k \in ChunkKeys : ENABLED GetMazeChunk(k[1], k[2])

\* a call has missed on the very chunk the worker holds generation_lock to commit
C5_Witness ==
    /\ main_pc = "loop"
    /\ generation_lock = "worker"
    /\ worker_pc = "commit"
    /\ Called /\ ~last_call.hit /\ last_call.key = worker_key

\* the key waits in one of the two queues
Queued(c) == InSeq(c, chunk_generation_queue) \/ InSeq(c, generation_queue)

\* the sentinel has been put on generation_queue
SentinelSent == shutdown_log # None

\* C6: a queued chunk coordinate is eventually in maze_cache, unless the
\* sentinel has been sent or the loop of main() has ended.
C6_EventualGeneration ==
    \A c \in ChunkKeys :
        Queued(c) ~> (c \in DOMAIN maze_cache \/ SentinelSent \/ main_pc = "quit")

\* two requested chunks are in maze_cache, no sentinel sent, the loop running
C6_Witness ==
    /\ Len(request_order) = 2
    /\ \A i \in 1..2 : request_order[i] \in DOMAIN maze_cache
    /\ ~SentinelSent
    /\ main_pc = "loop"
    /\ chunk_generation_queue = <<>> /\ generation_queue = <<>>

\* C7: of two chunk coordinates the one first requested earlier is committed
\* to maze_cache first: whenever the later one is in maze_cache, so is the
\* earlier one.
C7_FifoReadiness ==
    \A i, j \in 1..Len(request_order) :
        (i < j /\ request_order[j] \in DOMAIN maze_cache)
            => request_order[i] \in DOMAIN maze_cache

\* the chunk requested first is committed and the one requested second is
\* still being generated
C7_Witness ==
    /\ Len(request_order) = 2
    /\ DOMAIN maze_cache = {request_order[1]}
    /\ worker_key = request_order[2]

\* C8: when main() has ended and a worker thread was started, the worker has
\* exited.
C8_ShutdownJoinsWorker ==
    (main_pc = "quit" /\ generation_thread # "None") => worker_pc = "exited"

IsPrefix(s, t) == Len(s) <= Len(t) /\ \A i \in 1..Len(s) : s[i] = t[i]

\* the keys the worker had taken or had still to take when the sentinel was put
PendingAtShutdown ==
    (IF shutdown_log.in_flight = None THEN <<>> ELSE <<shutdown_log.in_flight>>)
        \o shutdown_log.queued

\* the sentinel was put behind three distinct chunk coordinates
ThreeQueuedAtShutdown ==
    /\ SentinelSent
    /\ Len(PendingAtShutdown) = 3
    /\ \A i, j \in 1..3 : i # j => PendingAtShutdown[i] # PendingAtShutdown[j]

\* C9 as stated: after the sentinel is put behind three distinct coordinates
\* the worker completes at most one chunk, the one in flight (the first of the
\* queue when none is in flight), and generates none of the others.
C9_AtMostInFlight ==
    ThreeQueuedAtShutdown =>
        Len(shutdown_log.started) <= (IF shutdown_log.in_flight = None THEN 1 ELSE 0)

\* C9 amended: after the sentinel is put the worker generates the coordinates
\* queued ahead of it, in queue order and no others, and exits only when all
\* of them are committed; while main() waits in join the worker can step
\* until it has exited, and then join returns.
C9_DrainsThenExits ==
    SentinelSent =>
        /\ IsPrefix(shutdown_log.started, shutdown_log.queued)
        /\ worker_pc = "exited" =>
                /\ shutdown_log.started = shutdown_log.queued
                /\ \A i \in 1..Len(PendingAtShutdown) :
                        PendingAtShutdown[i] \in DOMAIN maze_cache
        /\ main_pc = "join" =>
                IF worker_pc = "exited" THEN ENABLED MainJoin ELSE ENABLED Worker

\* the sentinel was put behind three distinct coordinates, the worker has
\* generated the three and exited, and join has returned
C9_Witness ==
    /\ ThreeQueuedAtShutdown
    /\ Len(shutdown_log.queued) = 3
    /\ shutdown_log.started = shutdown_log.queued
    /\ worker_pc = "exited"
    /\ main_pc = "loop"

Coords == (-MaxCoord)..MaxCoord

\* C10: chunk index and local index of a world coordinate are the floor
\* quotient and the remainder in 0..CHUNK_SIZE-1, they give the coordinate back,
\* no two coordinates share them, and get_maze_cell uses them for x and for y.
C10_CoordinateArithmetic ==
    /\ \A x \in Coords :
            /\ chunk_index(x) * CHUNK_SIZE <= x
            /\ x < (chunk_index(x) + 1) * CHUNK_SIZE
            /\ local_index(x) \in 0..(CHUNK_SIZE - 1)
            /\ chunk_index(x) * CHUNK_SIZE + local_index(x) = x
    /\ \A x1, x2 \in Coords :
            (chunk_index(x1) = chunk_index(x2) /\ local_index(x1) = local_index(x2))
                => x1 = x2
    /\ Called =>
            /\ last_call.local[1] \in 0..(CHUNK_SIZE - 1)
            /\ last_call.local[2] \in 0..(CHUNK_SIZE - 1)
            /\ last_call.key[1] * CHUNK_SIZE + last_call.local[1] = last_call.x
            /\ last_call.key[2] * CHUNK_SIZE + last_call.local[2] = last_call.y

\* get_maze_cell has been called with a negative x and with a negative y
C10_Witness ==
    /\ Called
    /\ last_call.x < 0 \/ last_call.y < 0
    /\ last_call.key[1] < 0 \/ last_call.key[2] < 0

C12_InvalidFailFast ==
    [][\A c \in FloatCells :
            GetMazeCellFloat(c[1], c[2]) =>
                /\ last_call'.raised
                /\ UNCHANGED <<maze_cache, chunk_generation_queue, generation_queue>>]_vars

\* the chunk coordinates that await generation: in chunk_generation_queue, in
\* generation_queue or taken by the worker and not yet committed
Pending ==
    {c \in Chunks : Queued(c) \/ worker_key = c}

\* C13: no chunk coordinate is in maze_cache and awaiting generation at the
\* same time.
C13_PendingCachedDisjoint ==
    Pending \cap DOMAIN maze_cache = {}

\* C14: a chunk coordinate that has been requested is in maze_cache or in
\* chunk_generation_queue, the list get_maze_chunk consults, in every state
\* in which the foreground can make a call.
C14_PublishCommitOrdering ==
    ForegroundRuns =>
        \A i \in 1..Len(request_order) :
            \/ request_order[i] \in DOMAIN maze_cache
            \/ InSeq(request_order[i], chunk_generation_queue)

\* C15: generation_queue holds every chunk coordinate at most once.
C15_QueueDeduplication ==
    \A i, j \in 1..Len(generation_queue) :
        generation_queue[i] = generation_queue[j] => i = j

\* C16: at most one worker thread is ever created, a worker is started by a
\* process_chunk_generation call only, and generation_queue is given keys only
\* once the worker has been started.
C16_SingleWorker ==
    [][/\ threads_created' <= 1
       /\ (worker_pc = "not_started" /\ worker_pc' # "not_started")
            => ProcessChunkGeneration
       /\ generation_queue' # <<>> => (threads_created' = 1 /\ generation_thread' = "Thread")]_vars

\* process_chunk_generation has put keys on generation_queue after the one
\* worker has exited, and no second worker was created
C16_Witness ==
    /\ threads_created = 1
    /\ worker_pc = "exited"
    /\ main_pc = "loop"
    /\ generation_queue # <<>>

\* C17: a get_maze_chunk call for a key that is in maze_cache, here the one
\* get_maze_cell makes, leaves maze_cache, chunk_generation_queue and
\* generation_queue as they were.
C17_CacheHitNoSideEffect ==
    [][\A c \in WorldCells :
            (/\ <<chunk_index(c[1]), chunk_index(c[2])>> \in DOMAIN maze_cache
             /\ GetMazeCell(c[1], c[2]))
                => UNCHANGED <<maze_cache, chunk_generation_queue, generation_queue>>]_vars

\* a call has hit a chunk that was generated once, and nothing is queued or
\* with the worker
C17_Witness ==
    /\ Called /\ last_call.hit
    /\ invocations[last_call.key] = 1
    /\ chunk_generation_queue = <<>> /\ generation_queue = <<>>
    /\ worker_pc = "get"

\* C18: when the sentinel is put while the worker is generating a chunk, the
\* worker has committed that chunk by the time it has exited, and every
\* chunk in maze_cache is a whole generated chunk: CHUNK_SIZE by CHUNK_SIZE
\* cells, each 0 or 1, as generate_chunk computes them for the key.
C18_InFlightSurvivesShutdown ==
    /\ (SentinelSent /\ shutdown_log.in_flight # None /\ worker_pc = "exited")
            => shutdown_log.in_flight \in DOMAIN maze_cache
    /\ \A k \in DOMAIN maze_cache :
            /\ DOMAIN maze_cache[k] = Local
            /\ \A x \in Local :
                    /\ DOMAIN maze_cache[k][x] = Local
                    /\ \A y \in Local : maze_cache[k][x][y] \in {0, 1}
            /\ maze_cache[k] = generate(noise_gen, k[1], k[2])

\* the sentinel was put while the worker was generating a chunk for the first
\* time; the worker has committed it and exited
C18_Witness ==
    /\ SentinelSent
    /\ shutdown_log.in_flight # None
    /\ invocations[shutdown_log.in_flight] = 1
    /\ shutdown_log.in_flight \in DOMAIN maze_cache
    /\ worker_pc = "exited"

\* C19: maze_cache changes only in the worker's commit and only at the
\* worker's key; get_maze_cell with its get_maze_chunk call and
\* process_chunk_generation leave it as it is; every key of maze_cache has been
\* requested through get_maze_chunk.
C19_OnlyWorkerWrites ==
    [][/\ maze_cache' # maze_cache =>
            /\ worker_pc = "commit" /\ worker_pc' = "get"
            /\ DOMAIN maze_cache' = DOMAIN maze_cache \cup {worker_key}
            /\ \A k \in DOMAIN maze_cache \ {worker_key} :
                    maze_cache'[k] = maze_cache[k]
       /\ ((\E c \in WorldCells : GetMazeCell(c[1], c[2])) \/ ProcessChunkGeneration)
            => maze_cache' = maze_cache
       /\ \A k \in DOMAIN maze_cache' : InSeq(k, request_order')]_vars

\* the worker has committed the first of two requested chunks, and the call
\* that asked for the second missed and left maze_cache with the first only
C19_Witness ==
    /\ Len(request_order) = 2
    /\ DOMAIN maze_cache = {request_order[1]}
    /\ Called /\ ~last_call.hit /\ last_call.key = request_order[2]
    /\ worker_pc = "get"

====
